---- MODULE Spec2Model ----
(***************************************************************************)
(* Model of app/routers/admin.py: the admin router of the sqlite backend.  *)
(*                                                                         *)
(* Three endpoints share one dependency, get_conn, which opens a database  *)
(* connection before the handler runs and closes it afterwards:            *)
(*   GET  /admin          admin_home       lists the snapshots             *)
(*   POST /admin/upload   upload_snapshot  imports every uploaded file and *)
(*                                         aggregates the per-file reports *)
(*   GET  /api/snapshots  list_snapshots   lists the snapshots as JSON     *)
(*                                                                         *)
(* A request is a slot r of Requests; its handler's local variables are    *)
(* the components [r] of the variables below.  Two specifications are      *)
(* given: Spec runs the requests of Requests concurrently against one      *)
(* snapshots table, SpecBatch runs one upload request at a time over the   *)
(* full set of per-file reports.                                           *)
(***************************************************************************)
EXTENDS Integers, Sequences, FiniteSets, TLC

\* ------------------------------------------------------------- bounds
MaxFiles == 2       \* files of one upload request
MaxRows == 2        \* rows the snapshots table can hold

\* The requests in flight at once.
Requests == {1, 2}

\* ------------------------------------------------------------- inputs
Endpoints == {"admin_home", "upload_snapshot", "list_snapshots"}

\* UploadFile.filename of the uploaded files.
Filenames == {"a.xlsx", "b.csv"}

\* files: list[UploadFile], in the order submitted.  The empty list is what
\* a direct call of the handler can pass; over HTTP File(...) asks for a file.
FileLists == UNION {[1..n -> Filenames] : n \in 0..MaxFiles}

\* The uploads of the concurrent specification: every file has the same name.
BasicFileLists == {<<>>, <<"a.xlsx">>, <<"a.xlsx", "a.xlsx">>}

\* snapshot_date values, as day numbers.
Dates == {1, 2}

\* report.warnings and report.errors of one file.
WarningLists == {<<>>, <<"no owner">>, <<"late start", "no owner">>}
ErrorLists == {<<>>, <<"bad date">>, <<"no sheet", "bad date">>}

\* (processed_projects, processed_events) of one file.
Counts == {<<0, 0>>, <<2, 3>>}

\* A SnapshotReport value.
SnapshotReport(success, message, processed_projects, processed_events, warnings, errors) ==
    [success |-> success, message |-> message,
     processed_projects |-> processed_projects,
     processed_events |-> processed_events,
     warnings |-> warnings, errors |-> errors]

\* Every report import_snapshot may return for one file: the success flag,
\* the counts, the warnings and the errors vary independently.
Reports ==
    {SnapshotReport(s, "", c[1], c[2], w, e) :
        s \in BOOLEAN, c \in Counts, w \in WarningLists, e \in ErrorLists}

\* The reports of the concurrent specification: one clean import, one import
\* with a warning and an error.
BasicReports ==
    {SnapshotReport(TRUE, "", 2, 3, <<>>, <<>>),
     SnapshotReport(FALSE, "", 0, 0, <<"late start", "no owner">>, <<"bad date">>)}

\* What one import does to the snapshots table: nothing, or one new row of
\* the given date.
NoInsert == 0
Inserts == {NoInsert} \cup Dates

\* ------------------------------------------------------------- state
VARIABLES
    pc,                 \* pc[r]: where request r is
    endpoint,           \* endpoint[r]: the handler the request is routed to
    conn,               \* conn[r]: the connection get_conn holds for r
    opened,             \* opened[r]: get_connection() calls made for r
    files,              \* files[r]: the uploaded files (their filenames)
    idx,                \* idx[r]: files taken by the for loop so far
    aggregated_report,  \* aggregated_report[r]
    valid_files_count,  \* valid_files_count[r]
    reports,            \* reports[r]: the reports import_snapshot returned, in order
    calls,              \* calls[r]: import_snapshot call/return events, in order
    before,             \* before[r]: the table when the request arrived
    inserted,           \* inserted[r]: rows the imports of r inserted
    response,           \* response[r]: what the handler returned
    raised,             \* raised[r]: the handler ended by an exception
    table,              \* the rows of the snapshots table
    next_id             \* the next snapshot_id

vars == <<pc, endpoint, conn, opened, files, idx, aggregated_report,
          valid_files_count, reports, calls, before, inserted, response,
          raised, table, next_id>>

\* aggregated_report as constructed at the top of upload_snapshot.
InitialReport == SnapshotReport(TRUE, "", 0, 0, <<>>, <<>>)

NoResponse == [snapshots |-> <<>>, report |-> InitialReport, data |-> <<>>]

Init ==
    /\ pc = [r \in Requests |-> "idle"]
    /\ endpoint = [r \in Requests |-> "admin_home"]
    /\ conn = [r \in Requests |-> "none"]
    /\ opened = [r \in Requests |-> 0]
    /\ files = [r \in Requests |-> <<>>]
    /\ idx = [r \in Requests |-> 0]
    /\ aggregated_report = [r \in Requests |-> InitialReport]
    /\ valid_files_count = [r \in Requests |-> 0]
    /\ reports = [r \in Requests |-> <<>>]
    /\ calls = [r \in Requests |-> <<>>]
    /\ before = [r \in Requests |-> {}]
    /\ inserted = [r \in Requests |-> {}]
    /\ response = [r \in Requests |-> NoResponse]
    /\ raised = [r \in Requests |-> FALSE]
    /\ table = {}
    /\ next_id = 1

\* ------------------------------------------------------------- helpers
\* str(n) of a non-negative int, as the f-strings format it.
Digit(d) == <<"0", "1", "2", "3", "4", "5", "6", "7", "8", "9">>[d + 1]

RECURSIVE IntToStr(_)
IntToStr(n) == IF n < 10 THEN Digit(n) ELSE IntToStr(n \div 10) \o Digit(n % 10)

\* Faulty variant of Prefix: the blank after the bracket is missing.
Prefix_NoSpace(filename) == "[" \o filename \o "]"

\* prefix = f"[{file.filename}] "
Prefix(filename) == "[" \o filename \o "] "

\* [prefix + m for m in messages]
PrefixAll(prefix, messages) == [k \in 1..Len(messages) |-> prefix \o messages[k]]

\* f"Processed {n} files. {valid} succeeded, {n-valid} failed."
ProcessedMessage(n, valid) ==
    "Processed " \o IntToStr(n) \o " files. " \o IntToStr(valid)
        \o " succeeded, " \o IntToStr(n - valid) \o " failed."

\* f"Successfully uploaded {valid} files."
UploadedMessage(valid) == "Successfully uploaded " \o IntToStr(valid) \o " files."

\* Faulty variant of OrderByDateDesc: ORDER BY snapshot_date ASC.
OrderByDateAsc(T) ==
    {s \in [1..Cardinality(T) -> T] :
        /\ \A i, j \in 1..Cardinality(T) : i # j => s[i] # s[j]
        /\ \A i \in 1..(Cardinality(T) - 1) : s[i].snapshot_date <= s[i + 1].snapshot_date}

\* The results "SELECT * FROM snapshots ORDER BY snapshot_date DESC" may
\* return on rows T: every row once, dates descending; rows of equal date
\* come in any order.
OrderByDateDesc(T) ==
    {s \in [1..Cardinality(T) -> T] :
        /\ \A i, j \in 1..Cardinality(T) : i # j => s[i] # s[j]
        /\ \A i \in 1..(Cardinality(T) - 1) : s[i].snapshot_date >= s[i + 1].snapshot_date}

\* The dict list_snapshots builds from one row.
RowDict(row) ==
    [snapshot_id |-> row.snapshot_id, snapshot_date |-> row.snapshot_date,
     uploaded_at |-> row.uploaded_at, source_filename |-> row.source_filename]

\* The row one import inserts for a file.
SnapshotRow(id, date, filename) ==
    [snapshot_id |-> id, snapshot_date |-> date,
     uploaded_at |-> id, source_filename |-> filename]

\* The rows one run of the importer adds to the snapshots table.
ImportedRows(id, ins, filename) ==
    IF ins = NoInsert THEN {} ELSE {SnapshotRow(id, ins, filename)}

\* upload_snapshot is a coroutine without await: while its body runs it holds
\* the event loop, so no other upload_snapshot body runs.
InUploadBody(r) ==
    endpoint[r] = "upload_snapshot" /\ pc[r] \in {"loop", "importing", "query"}

\* ------------------------------------------------------------- actions
\* A request arrives and is routed to its endpoint.
Receive(r, e, fs) ==
    /\ pc[r] = "idle"
    /\ e = "upload_snapshot" \/ fs = <<>>
    /\ pc' = [pc EXCEPT ![r] = "depends"]
    /\ endpoint' = [endpoint EXCEPT ![r] = e]
    /\ files' = [files EXCEPT ![r] = fs]
    /\ before' = [before EXCEPT ![r] = table]
    /\ UNCHANGED <<raised, conn, opened, idx, aggregated_report, valid_files_count,
                   reports, calls, inserted, response, table, next_id>>

\* get_conn up to its yield: conn = get_connection().
get_conn(r) ==
    /\ pc[r] = "depends"
    /\ conn' = [conn EXCEPT ![r] = "open"]
    /\ opened' = [opened EXCEPT ![r] = @ + 1]
    /\ pc' = [pc EXCEPT ![r] = "handler"]
    /\ UNCHANGED <<raised, endpoint, files, idx, aggregated_report, valid_files_count,
                   reports, calls, before, inserted, response, table, next_id>>

\* admin_home: query the snapshots and render the page.
admin_home(r) ==
    /\ pc[r] = "handler"
    /\ endpoint[r] = "admin_home"
    /\ \E snapshots \in OrderByDateDesc(table) :
          response' = [response EXCEPT ![r] =
                          [snapshots |-> snapshots, report |-> InitialReport, data |-> <<>>]]
    /\ pc' = [pc EXCEPT ![r] = "returned"]
    /\ UNCHANGED <<raised, endpoint, conn, opened, files, idx, aggregated_report,
                   valid_files_count, reports, calls, before, inserted, table, next_id>>

\* list_snapshots: query the snapshots and return them as dicts.
list_snapshots(r) ==
    /\ pc[r] = "handler"
    /\ endpoint[r] = "list_snapshots"
    /\ \E rows \in OrderByDateDesc(table) :
          response' = [response EXCEPT ![r] =
                          [snapshots |-> <<>>, report |-> InitialReport,
                           data |-> [k \in 1..Len(rows) |-> RowDict(rows[k])]]]
    /\ pc' = [pc EXCEPT ![r] = "returned"]
    /\ UNCHANGED <<raised, endpoint, conn, opened, files, idx, aggregated_report,
                   valid_files_count, reports, calls, before, inserted, table, next_id>>

\* upload_snapshot up to its for loop.
upload_snapshot_begin(r) ==
    /\ pc[r] = "handler"
    /\ endpoint[r] = "upload_snapshot"
    /\ \A q \in Requests : ~InUploadBody(q)
    /\ aggregated_report' = [aggregated_report EXCEPT ![r] = InitialReport]
    /\ valid_files_count' = [valid_files_count EXCEPT ![r] = 0]
    /\ idx' = [idx EXCEPT ![r] = 0]
    /\ pc' = [pc EXCEPT ![r] = "loop"]
    /\ UNCHANGED <<raised, endpoint, conn, opened, files, reports, calls, before,
                   inserted, response, table, next_id>>

\* for file in files: import_snapshot(file) is called.
import_snapshot_call(r) ==
    /\ pc[r] = "loop"
    /\ idx[r] < Len(files[r])
    /\ idx' = [idx EXCEPT ![r] = @ + 1]
    /\ calls' = [calls EXCEPT ![r] = Append(@, <<"call", idx[r] + 1>>)]
    /\ pc' = [pc EXCEPT ![r] = "importing"]
    /\ UNCHANGED <<raised, endpoint, conn, opened, files, aggregated_report,
                   valid_files_count, reports, before, inserted, response,
                   table, next_id>>

\* Faulty variant of Accumulate: the new entries are put in front of the lists.
Accumulate_Prepend(agg, filename, report) ==
    LET prefix == Prefix(filename)
        errs == report.errors # <<>>
    IN  [agg EXCEPT
            !.processed_projects = @ + report.processed_projects,
            !.processed_events = @ + report.processed_events,
            !.warnings = PrefixAll(prefix, report.warnings) \o @,
            !.errors = PrefixAll(prefix, report.errors) \o @,
            !.success = IF errs THEN FALSE ELSE @]

\* Faulty variant of Accumulate: a report with errors adds no counts.
Accumulate_SkipFailed(agg, filename, report) ==
    LET prefix == Prefix(filename)
        errs == report.errors # <<>>
    IN  [agg EXCEPT
            !.processed_projects = IF errs THEN @ ELSE @ + report.processed_projects,
            !.processed_events = IF errs THEN @ ELSE @ + report.processed_events,
            !.warnings = @ \o PrefixAll(prefix, report.warnings),
            !.errors = @ \o PrefixAll(prefix, report.errors),
            !.success = IF errs THEN FALSE ELSE @]

\* The body of the for loop on the report import_snapshot returned.
Accumulate(agg, filename, report) ==
    LET prefix == Prefix(filename)
        errs == report.errors # <<>>
    IN  [agg EXCEPT
            !.processed_projects = @ + report.processed_projects,
            !.processed_events = @ + report.processed_events,
            !.warnings = IF report.warnings # <<>>
                         THEN @ \o PrefixAll(prefix, report.warnings) ELSE @,
            !.errors = IF errs THEN @ \o PrefixAll(prefix, report.errors) ELSE @,
            !.success = IF errs THEN FALSE ELSE @]

\* Faulty variant of CountValid: a file counts as valid when its report has no errors.
CountValid_ByErrors(count, report) == IF report.errors = <<>> THEN count + 1 ELSE count

\* if report.success: valid_files_count += 1
CountValid(count, report) == IF report.success THEN count + 1 ELSE count

\* import_snapshot returns a report, having inserted a row or not, and the
\* loop body accumulates the report.
import_snapshot_return(r, report, ins) ==
    /\ pc[r] = "importing"
    /\ ins # NoInsert => Cardinality(table) < MaxRows
    /\ LET filename == files[r][idx[r]]
           rows == ImportedRows(next_id, ins, filename)
       IN  /\ table' = table \cup rows
           /\ inserted' = [inserted EXCEPT ![r] = @ \cup rows]
           /\ next_id' = next_id + Cardinality(rows)
           /\ aggregated_report' =
                 [aggregated_report EXCEPT ![r] = Accumulate(@, filename, report)]
    /\ valid_files_count' = [valid_files_count EXCEPT ![r] = CountValid(@, report)]
    /\ reports' = [reports EXCEPT ![r] = Append(@, report)]
    /\ calls' = [calls EXCEPT ![r] = Append(@, <<"return", idx[r]>>)]
    /\ pc' = [pc EXCEPT ![r] = "loop"]
    /\ UNCHANGED <<raised, endpoint, conn, opened, files, idx, before, response>>

\* import_snapshot raises: the exception leaves upload_snapshot.
import_snapshot_raise(r) ==
    /\ pc[r] = "importing"
    /\ calls' = [calls EXCEPT ![r] = Append(@, <<"raise", idx[r]>>)]
    /\ pc' = [pc EXCEPT ![r] = "raised"]
    /\ raised' = [raised EXCEPT ![r] = TRUE]
    /\ UNCHANGED <<endpoint, conn, opened, files, idx, aggregated_report,
                   valid_files_count, reports, before, inserted, response,
                   table, next_id>>

\* Faulty variant of FinalReport: success says whether every file was valid.
FinalReport_ByFlags(agg, n, valid) ==
    IF agg.errors # <<>>
    THEN [agg EXCEPT !.success = FALSE, !.message = ProcessedMessage(n, valid)]
    ELSE [agg EXCEPT !.success = (valid = n), !.message = UploadedMessage(valid)]

\* Final message construction.
FinalReport(agg, n, valid) ==
    IF agg.errors # <<>>
    THEN [agg EXCEPT !.success = FALSE, !.message = ProcessedMessage(n, valid)]
    ELSE [agg EXCEPT !.success = TRUE, !.message = UploadedMessage(valid)]

\* Faulty variant of upload_snapshot_message: the loop is left at the first report
\* with errors.
upload_snapshot_message_break(r) ==
    /\ pc[r] = "loop"
    /\ idx[r] = Len(files[r]) \/ aggregated_report[r].errors # <<>>
    /\ aggregated_report' =
          [aggregated_report EXCEPT ![r] =
              FinalReport(@, Len(files[r]), valid_files_count[r])]
    /\ pc' = [pc EXCEPT ![r] = "query"]
    /\ UNCHANGED <<raised, endpoint, conn, opened, files, idx, valid_files_count,
                   reports, calls, before, inserted, response, table, next_id>>

upload_snapshot_message(r) ==
    /\ pc[r] = "loop"
    /\ idx[r] = Len(files[r])
    /\ aggregated_report' =
          [aggregated_report EXCEPT ![r] =
              FinalReport(@, Len(files[r]), valid_files_count[r])]
    /\ pc' = [pc EXCEPT ![r] = "query"]
    /\ UNCHANGED <<raised, endpoint, conn, opened, files, idx, valid_files_count,
                   reports, calls, before, inserted, response, table, next_id>>

\* Faulty variant of upload_snapshot_respond: the page lists the rows read before
\* the imports ran.
upload_snapshot_respond_stale(r) ==
    /\ pc[r] = "query"
    /\ \E snapshots \in OrderByDateDesc(before[r]) :
          response' = [response EXCEPT ![r] =
                          [snapshots |-> snapshots, report |-> aggregated_report[r],
                           data |-> <<>>]]
    /\ pc' = [pc EXCEPT ![r] = "returned"]
    /\ UNCHANGED <<raised, endpoint, conn, opened, files, idx, aggregated_report,
                   valid_files_count, reports, calls, before, inserted, table, next_id>>

\* upload_snapshot queries the snapshots and renders the page with the report.
upload_snapshot_respond(r) ==
    /\ pc[r] = "query"
    /\ \E snapshots \in OrderByDateDesc(table) :
          response' = [response EXCEPT ![r] =
                          [snapshots |-> snapshots, report |-> aggregated_report[r],
                           data |-> <<>>]]
    /\ pc' = [pc EXCEPT ![r] = "returned"]
    /\ UNCHANGED <<raised, endpoint, conn, opened, files, idx, aggregated_report,
                   valid_files_count, reports, calls, before, inserted, table, next_id>>

\* Faulty variant of get_conn_close: conn.close() follows the yield without
\* try/finally, so an exception of the handler skips it.
get_conn_close_no_finally(r) ==
    /\ pc[r] \in {"returned", "raised"}
    /\ conn' = [conn EXCEPT ![r] = IF pc[r] = "raised" THEN @ ELSE "closed"]
    /\ pc' = [pc EXCEPT ![r] = "done"]
    /\ files' = [files EXCEPT ![r] = <<>>]
    /\ idx' = [idx EXCEPT ![r] = 0]
    /\ aggregated_report' = [aggregated_report EXCEPT ![r] = InitialReport]
    /\ valid_files_count' = [valid_files_count EXCEPT ![r] = 0]
    /\ reports' = [reports EXCEPT ![r] = <<>>]
    /\ calls' = [calls EXCEPT ![r] = <<>>]
    /\ before' = [before EXCEPT ![r] = {}]
    /\ inserted' = [inserted EXCEPT ![r] = {}]
    /\ response' = [response EXCEPT ![r] = NoResponse]
    /\ UNCHANGED <<raised, endpoint, opened, table, next_id>>

\* get_conn after its yield: finally conn.close(), when the handler has
\* returned and when it has raised.  The handler's frame is gone.
get_conn_close(r) ==
    /\ pc[r] \in {"returned", "raised"}
    /\ conn' = [conn EXCEPT ![r] = "closed"]
    /\ pc' = [pc EXCEPT ![r] = "done"]
    /\ files' = [files EXCEPT ![r] = <<>>]
    /\ idx' = [idx EXCEPT ![r] = 0]
    /\ aggregated_report' = [aggregated_report EXCEPT ![r] = InitialReport]
    /\ valid_files_count' = [valid_files_count EXCEPT ![r] = 0]
    /\ reports' = [reports EXCEPT ![r] = <<>>]
    /\ calls' = [calls EXCEPT ![r] = <<>>]
    /\ before' = [before EXCEPT ![r] = {}]
    /\ inserted' = [inserted EXCEPT ![r] = {}]
    /\ response' = [response EXCEPT ![r] = NoResponse]
    /\ UNCHANGED <<raised, endpoint, opened, table, next_id>>

\* The request is over; the slot serves the next request.
Finish(r) ==
    /\ pc[r] = "done"
    /\ pc' = [pc EXCEPT ![r] = "idle"]
    /\ conn' = [conn EXCEPT ![r] = "none"]
    /\ opened' = [opened EXCEPT ![r] = 0]
    /\ endpoint' = [endpoint EXCEPT ![r] = "admin_home"]
    /\ raised' = [raised EXCEPT ![r] = FALSE]
    /\ UNCHANGED <<files, idx, aggregated_report, valid_files_count, reports,
                   calls, before, inserted, response, table, next_id>>

\* ------------------------------------------------------------- specifications
\* Concurrent requests on all three endpoints.
Next ==
    \E r \in Requests :
        \/ \E e \in Endpoints, fs \in BasicFileLists : Receive(r, e, fs)
        \/ get_conn(r)
        \/ admin_home(r)
        \/ list_snapshots(r)
        \/ upload_snapshot_begin(r)
        \/ import_snapshot_call(r)
        \/ \E report \in BasicReports, ins \in Inserts : import_snapshot_return(r, report, ins)
        \/ import_snapshot_raise(r)
        \/ upload_snapshot_message(r)
        \/ upload_snapshot_respond(r)
        \/ get_conn_close(r)
        \/ Finish(r)

Spec == Init /\ [][Next]_vars

\* One upload request at a time, over every report of Reports.
NextBatch ==
    \/ \E fs \in FileLists : Receive(1, "upload_snapshot", fs)
    \/ get_conn(1)
    \/ upload_snapshot_begin(1)
    \/ import_snapshot_call(1)
    \/ \E report \in Reports : import_snapshot_return(1, report, NoInsert)
    \/ import_snapshot_raise(1)
    \/ upload_snapshot_message(1)
    \/ upload_snapshot_respond(1)
    \/ get_conn_close(1)
    \/ Finish(1)

SpecBatch == Init /\ [][NextBatch]_vars

\* ------------------------------------------------------------- properties
\* Request r has got its page back from upload_snapshot.
Uploaded(r) == endpoint[r] = "upload_snapshot" /\ pc[r] = "returned"

\* The sum of f[k] over k in 1..n.
RECURSIVE SumTo(_, _)
SumTo(f, n) == IF n = 0 THEN 0 ELSE SumTo(f, n - 1) + f[n]

\* The per-file lengths of the error lists and of the warning lists of r.
ErrorLens(r) == [k \in 1..Len(reports[r]) |-> Len(reports[r][k].errors)]
WarningLens(r) == [k \in 1..Len(reports[r]) |-> Len(reports[r][k].warnings)]

\* The files of r whose report has errors.
Failing(r) == {k \in 1..Len(reports[r]) : reports[r][k].errors # <<>>}

\* The text "[<filename>] <message>" for file k of request r.
Tagged(r, k, message) == "[" \o files[r][k] \o "] " \o message

\* Entry m of file k's list sits at position SumTo(lens, k - 1) + m of the
\* aggregated list: after every entry of the files before k, in per-file order.
InFileOrder(r, lens, aggregated, field) ==
    /\ Len(aggregated) = SumTo(lens, Len(reports[r]))
    /\ \A k \in 1..Len(reports[r]) :
          \A m \in 1..lens[k] :
              aggregated[SumTo(lens, k - 1) + m] =
                  Tagged(r, k, IF field = "errors" THEN reports[r][k].errors[m]
                               ELSE reports[r][k].warnings[m])

\* C1 (as claimed): when every per-file report of an upload has an empty error
\* list, the aggregated report has success = TRUE and its message is
\* "Successfully uploaded N files." with N the number of uploaded files,
\* whatever the per-file success flags and warnings are.
C1_AllClean_ReportsN ==
    \A r \in Requests :
        (Uploaded(r) /\ Failing(r) = {}) =>
            /\ response[r].report.success = TRUE
            /\ response[r].report.message =
                  "Successfully uploaded " \o IntToStr(Len(files[r])) \o " files."

\* C2: when at least one per-file report has errors, the aggregated report
\* has success = FALSE, its error list is as long as the per-file error lists
\* together, and every entry is "[<filename>] " followed by the original
\* error text, with the filename of the file whose import produced it.
C2_ErrorsAggregated ==
    \A r \in Requests :
        (Uploaded(r) /\ Failing(r) # {}) =>
            /\ response[r].report.success = FALSE
            /\ Len(response[r].report.errors) = SumTo(ErrorLens(r), Len(files[r]))
            /\ InFileOrder(r, ErrorLens(r), response[r].report.errors, "errors")

\* C2 witness: two files of different names both reported errors.
C2_Witness ==
    \E r \in Requests :
        /\ Uploaded(r)
        /\ Len(files[r]) = 2
        /\ files[r][1] # files[r][2]
        /\ Failing(r) = {1, 2}
        /\ Len(response[r].report.errors) = 3

\* The number of "call" events for file k in the call log of r.
CallsOf(r, k) == Cardinality({j \in 1..Len(calls[r]) : calls[r][j] = <<"call", k>>})

\* C3: a report with errors does not stop the handler: when upload_snapshot
\* returns, import_snapshot has been called exactly once for every uploaded
\* file, the files after a failing one included, and the counts and warnings
\* of the files without errors are in the aggregated report.
C3_EveryFileImported ==
    \A r \in Requests :
        Uploaded(r) =>
            /\ Len(reports[r]) = Len(files[r])
            /\ \A k \in 1..Len(files[r]) : CallsOf(r, k) = 1
            /\ Len(calls[r]) = 2 * Len(files[r])
            /\ LET clean == (1..Len(files[r])) \ Failing(r)
                   projects == [k \in 1..Len(files[r]) |->
                                   IF k \in clean THEN reports[r][k].processed_projects ELSE 0]
                   events == [k \in 1..Len(files[r]) |->
                                 IF k \in clean THEN reports[r][k].processed_events ELSE 0]
               IN  /\ response[r].report.processed_projects >= SumTo(projects, Len(files[r]))
                   /\ response[r].report.processed_events >= SumTo(events, Len(files[r]))
                   /\ \A k \in clean :
                         \A m \in 1..Len(reports[r][k].warnings) :
                             \E j \in 1..Len(response[r].report.warnings) :
                                 response[r].report.warnings[j] =
                                     Tagged(r, k, reports[r][k].warnings[m])

\* C3 witness: the first file's report had errors, the second file was still
\* imported and its counts and warnings are reported.
C3_Witness ==
    \E r \in Requests :
        /\ Uploaded(r)
        /\ Len(files[r]) = 2
        /\ Failing(r) = {1}
        /\ reports[r][2].warnings # <<>>
        /\ reports[r][2].processed_projects > 0
        /\ calls[r] = <<<<"call", 1>>, <<"return", 1>>, <<"call", 2>>, <<"return", 2>>>>

\* C6: the files are imported one after the other in the order submitted:
\* the call log alternates call k, return k for k = 1, 2, ..., and the
\* aggregated warnings and errors keep that order: the entries of file k
\* come after those of the files before it, in their per-file order.
C6_SequentialInOrder ==
    \A r \in Requests :
        /\ \A j \in 1..Len(calls[r]) :
              IF j % 2 = 1
              THEN calls[r][j] = <<"call", (j + 1) \div 2>>
              ELSE calls[r][j] \in {<<"return", j \div 2>>, <<"raise", j \div 2>>}
        /\ (endpoint[r] = "upload_snapshot" /\ pc[r] \in {"loop", "importing", "query", "returned"}) =>
              /\ InFileOrder(r, WarningLens(r), aggregated_report[r].warnings, "warnings")
              /\ InFileOrder(r, ErrorLens(r), aggregated_report[r].errors, "errors")

\* C6 witness: two files, each with two warnings, the second with two errors.
C6_Witness ==
    \E r \in Requests :
        /\ Uploaded(r)
        /\ Len(files[r]) = 2
        /\ files[r][1] # files[r][2]
        /\ Len(reports[r][1].warnings) = 2
        /\ Len(reports[r][2].warnings) = 2
        /\ Len(reports[r][1].errors) = 1
        /\ Len(reports[r][2].errors) = 2
        /\ Len(calls[r]) = 4

\* C7: when upload_snapshot returns, the aggregated processed_projects and
\* processed_events are the sums of the per-file values over every file,
\* the files with errors or success = FALSE included, and the aggregated
\* warnings are the per-file warnings, each with its file's "[<filename>] ".
C7_CountsAndWarnings ==
    \A r \in Requests :
        Uploaded(r) =>
            LET n == Len(files[r])
                projects == [k \in 1..n |-> reports[r][k].processed_projects]
                events == [k \in 1..n |-> reports[r][k].processed_events]
            IN  /\ Len(reports[r]) = n
                /\ response[r].report.processed_projects = SumTo(projects, n)
                /\ response[r].report.processed_events = SumTo(events, n)
                /\ Len(response[r].report.warnings) = SumTo(WarningLens(r), n)
                /\ InFileOrder(r, WarningLens(r), response[r].report.warnings, "warnings")

\* C7 witness: a file with errors and success = FALSE still adds its counts
\* and warnings, next to a clean file.
C7_Witness ==
    \E r \in Requests :
        /\ Uploaded(r)
        /\ Len(files[r]) = 2
        /\ Failing(r) = {2}
        /\ ~reports[r][2].success
        /\ reports[r][1].processed_projects > 0
        /\ reports[r][2].processed_events > 0
        /\ response[r].report.processed_events = 6
        /\ Len(response[r].report.warnings) = 3

\* C9: in the report upload_snapshot returns, success is TRUE exactly when
\* the aggregated error list is empty, that is when no per-file report has
\* errors; the per-file success flags and the warnings do not matter.
C9_SuccessIffNoErrors ==
    \A r \in Requests :
        Uploaded(r) =>
            /\ response[r].report.success = (response[r].report.errors = <<>>)
            /\ response[r].report.success = (Failing(r) = {})

\* C9 witness: a file reports success = FALSE and warnings with no errors,
\* and the aggregated success is TRUE.
C9_Witness ==
    \E r \in Requests :
        /\ Uploaded(r)
        /\ \E k \in 1..Len(reports[r]) :
              /\ ~reports[r][k].success
              /\ reports[r][k].errors = <<>>
              /\ reports[r][k].warnings # <<>>
        /\ response[r].report.success

\* The files of r whose report has success = TRUE.
Succeeded(r) == {k \in 1..Len(reports[r]) : reports[r][k].success}

\* C10: when the aggregated error list is not empty the message is
\* "Processed N files. s succeeded, f failed." with N the number of files,
\* s the number of reports with success = TRUE and f = N - s (so s + f = N
\* and 0 <= s <= N): s and f come from the success flags, not the errors.
C10_ProcessedMessage ==
    \A r \in Requests :
        (Uploaded(r) /\ response[r].report.errors # <<>>) =>
            LET n == Len(files[r])
                s == Cardinality(Succeeded(r))
                f == n - s
            IN  /\ s + f = n
                /\ 0 <= s /\ s <= n
                /\ response[r].report.message =
                      "Processed " \o IntToStr(n) \o " files. " \o IntToStr(s)
                          \o " succeeded, " \o IntToStr(f) \o " failed."

\* C10 witness: every file reports success = TRUE, one of them with errors:
\* the message says 0 failed while the aggregated success is FALSE.
C10_Witness ==
    \E r \in Requests :
        /\ Uploaded(r)
        /\ Len(files[r]) = 2
        /\ Succeeded(r) = {1, 2}
        /\ Failing(r) # {}
        /\ ~response[r].report.success
        /\ response[r].report.message = "Processed 2 files. 2 succeeded, 0 failed."

\* The rows request r got back: the dicts of list_snapshots, the rows of the
\* two pages.
Listed(r) ==
    IF endpoint[r] = "list_snapshots" THEN response[r].data ELSE response[r].snapshots

\* The elements of a sequence.
Range(s) == {s[k] : k \in 1..Len(s)}

\* C4: each of the three endpoints returns the rows in snapshot_date
\* descending order, and returns exactly the rows the snapshots table holds
\* when the query runs, each once.
C4_ListedByDateDesc ==
    [][\A r \in Requests :
          (pc[r] # "returned" /\ pc'[r] = "returned") =>
              LET rows == Listed(r)'
              IN  /\ \A k \in 1..(Len(rows) - 1) :
                        rows[k].snapshot_date >= rows[k + 1].snapshot_date
                  /\ Range(rows) = table
                  /\ Len(rows) = Cardinality(table)]_vars

\* C4 witness: an upload page and a JSON listing both hold two rows of
\* different dates, the later date first.
C4_Witness ==
    \E r, q \in Requests :
        /\ Uploaded(r)
        /\ pc[q] = "returned" /\ endpoint[q] = "list_snapshots"
        /\ Len(Listed(r)) = 2 /\ Len(Listed(q)) = 2
        /\ Listed(r)[1].snapshot_date > Listed(r)[2].snapshot_date
        /\ Listed(q)[1].snapshot_date > Listed(q)[2].snapshot_date
        /\ Listed(q)[1].snapshot_id > Listed(q)[2].snapshot_id

\* C5: get_conn opens one connection before the handler runs and closes it
\* after the handler ends, by return or by exception: a request that has not
\* reached its handler holds no connection, a running or just ended handler
\* has its one connection open, and a finished request has it closed.
C5_ConnectionPerRequest ==
    \A r \in Requests :
        /\ pc[r] \in {"idle", "depends"} => (conn[r] = "none" /\ opened[r] = 0)
        /\ pc[r] \in {"handler", "loop", "importing", "query", "returned", "raised"} =>
              (conn[r] = "open" /\ opened[r] = 1)
        /\ pc[r] = "done" => (conn[r] = "closed" /\ opened[r] = 1)

\* C5 witness: a request whose handler raised has finished.
C5_Witness ==
    \E r \in Requests : pc[r] = "done" /\ raised[r] /\ conn[r] = "closed"

\* C8: upload_snapshot queries the snapshots after import_snapshot has
\* returned for every file: the page lists every row the imports of this
\* request inserted and every row that was there when the request arrived.
C8_PageListsImportedRows ==
    \A r \in Requests :
        Uploaded(r) =>
            /\ Len(reports[r]) = Len(files[r])
            /\ \A k \in 1..Len(files[r]) : <<"return", k>> \in Range(calls[r])
            /\ inserted[r] \subseteq Range(response[r].snapshots)
            /\ before[r] \subseteq Range(response[r].snapshots)

\* C8 witness: the page lists a row of this request next to an older row.
C8_Witness ==
    \E r \in Requests :
        /\ Uploaded(r)
        /\ inserted[r] # {}
        /\ before[r] # {}
        /\ before[r] \cap inserted[r] = {}

====
